---- MODULE Spec2Model ----
(***************************************************************************)
(* Multi-document generation orchestrator of the compliance agent:         *)
(*   src/src/compliance_workflow.py  (compliance pipeline, prefix c_)   *)
(*   src/src/marketing_workflow.py   (marketing pipeline,  prefix m_)   *)
(* The run state is the Python state dictionary, modelled as a function    *)
(* from key names to values; a key that is absent from the dictionary is   *)
(* absent from the function's domain.  Every stage is an operator from     *)
(* state to state; the external collaborators (generation service,         *)
(* renderers) are inputs of the actions.                                   *)
(***************************************************************************)
EXTENDS Integers, Sequences, FiniteSets, TLC

\* Largest number of blueprint entries / analysed documents of a run.
MaxItems == 2

\* Largest number of non-nominal answers of the external collaborators
\* (error payloads, raised exceptions, failed renderings, failed checks)
\* in one run.
MaxFaults == 2

VARIABLES
    workflow,   \* "compliance" or "marketing": which graph is running
    state,      \* the run state dictionary
    pc,         \* the graph node to run next, "END" after the last one
    loc,        \* local variables of a stage suspended at an await
    calls,      \* history: tasks dispatched and generation-service queries
    faults      \* history: non-nominal collaborator answers so far

vars == <<workflow, state, pc, loc, calls, faults>>

----------------------------------------------------------------------------
(* Python dictionaries and lists *)

\* Each operator binds its arguments once (a bound variable of a set
\* constructor holds a value), so that a chain of updates is evaluated in a
\* number of steps linear in its length.
Get(d, k, default) ==
    CHOOSE r \in {IF k \in DOMAIN dd THEN dd[k] ELSE default : dd \in {d}} : TRUE

Put(d, k, v) ==
    CHOOSE r \in {[x \in DOMAIN dd \cup {k} |-> IF x = k THEN vv ELSE dd[x]] :
                     dd \in {d}, vv \in {v}} : TRUE

Update(d, r) ==
    CHOOSE u \in {[x \in DOMAIN dd \cup DOMAIN rr |->
                      IF x \in DOMAIN rr THEN rr[x] ELSE dd[x]] :
                     dd \in {d}, rr \in {r}} : TRUE

SetDefaults(d, r) ==
    CHOOSE u \in {[x \in DOMAIN dd \cup DOMAIN rr |->
                      IF x \in DOMAIN dd THEN dd[x] ELSE rr[x]] :
                     dd \in {d}, rr \in {r}} : TRUE

\* A dictionary whose iteration (insertion) order matters: a sequence of
\* <<key, value>> pairs.
OHas(od, k) == \E i \in 1..Len(od) : od[i][1] = k

OGet(od, k, default) ==
    IF OHas(od, k)
    THEN od[CHOOSE i \in 1..Len(od) : od[i][1] = k][2]
    ELSE default

OPut(od, k, v) ==
    CHOOSE u \in {IF OHas(oo, k)
                  THEN [i \in 1..Len(oo) |-> IF oo[i][1] = k THEN <<k, vv>> ELSE oo[i]]
                  ELSE Append(oo, <<k, vv>>) : oo \in {od}, vv \in {v}} : TRUE

RECURSIVE Concat(_)
Concat(seqs) == IF seqs = <<>> THEN <<>> ELSE Head(seqs) \o Concat(Tail(seqs))

\* Number of true entries of a sequence of booleans.
Count(flags) == Cardinality({i \in DOMAIN flags : flags[i]})

Min(a, b) == IF a <= b THEN a ELSE b

\* str.strip() on a prompt, a sequence of characters
RECURSIVE lstrip(_)
lstrip(p) == IF p # <<>> /\ Head(p) = " " THEN lstrip(Tail(p)) ELSE p

RECURSIVE rstrip(_)
rstrip(p) ==
    IF p # <<>> /\ p[Len(p)] = " " THEN rstrip(SubSeq(p, 1, Len(p) - 1)) ELSE p

strip(p) == rstrip(lstrip(p))

\* str.upper() on a format name
upper(fmt) ==
    CASE fmt = "docx" -> "DOCX"
      [] fmt = "pdf"  -> "PDF"
      [] fmt = "xlsx" -> "XLSX"
      [] fmt = "json" -> "JSON"
      [] OTHER        -> fmt

----------------------------------------------------------------------------
(* Outcome of a try body: the state it reached and the exception raised *)

NoError == "none"

Return(s) == [state |-> s, raised |-> NoError]

Raise(s, e) == [state |-> s, raised |-> e]

AIMessage(s, content) ==
    CHOOSE u \in {Put(ss, "messages",
                      Append(ss["messages"], [type |-> "ai", content |-> content])) :
                     ss \in {s}} : TRUE

----------------------------------------------------------------------------
(* compliance_workflow.py *)

c_ensure_state_initialization(s) ==
    SetDefaults(s, [messages             |-> <<>>,
                    trace_data           |-> <<>>,
                    document_results     |-> <<>>,
                    document_status      |-> <<>>,
                    deliverable_blueprint |-> <<>>,
                    required_documents   |-> <<>>,
                    document_plans       |-> <<>>,
                    executive_summary    |-> <<>>,
                    action_items         |-> <<>>,
                    compliance_report    |-> <<>>,
                    project_deliverables |-> <<>>])

add_trace_data(s, stage, data) ==
    Put(s, "trace_data", Put(Get(s, "trace_data", <<>>), stage, data))

\* Variant of the handler that counts an error once for the stage and once
\* more for the nested call (double counting).
c_handle_node_error_nested(s0, error, node_name) ==
    LET s1 == c_ensure_state_initialization(s0)
        rc == Get(s1, "retry_count", 0) + 2
        s2 == Update(s1, [error_message |-> [node |-> node_name, error |-> error],
                          retry_count   |-> rc])
        s3 == add_trace_data(s2, <<node_name, "error">>,
                             [error |-> error, retry_count |-> rc])
    IN  AIMessage(s3, [text |-> "Processing error", node |-> node_name,
                       retry |-> rc])

\* Variant of the handler that also marks the run as failed.
c_handle_node_error_failing(s0, error, node_name) ==
    LET s1 == c_ensure_state_initialization(s0)
        rc == Get(s1, "retry_count", 0) + 1
        s2 == Update(s1, [error_message |-> [node |-> node_name, error |-> error],
                          retry_count   |-> rc,
                          status        |-> "failed"])
        s3 == add_trace_data(s2, <<node_name, "error">>,
                             [error |-> error, retry_count |-> rc])
    IN  AIMessage(s3, [text |-> "Processing error", node |-> node_name,
                       retry |-> rc])

c_handle_node_error(s0, error, node_name) ==
    LET s1 == c_ensure_state_initialization(s0)
        rc == Get(s1, "retry_count", 0) + 1
        s2 == Update(s1, [error_message |-> [node |-> node_name, error |-> error],
                          retry_count   |-> rc])
        s3 == add_trace_data(s2, <<node_name, "error">>,
                             [error |-> error, retry_count |-> rc])
    IN  AIMessage(s3, [text |-> "Processing error", node |-> node_name,
                       retry |-> rc])

\* Variant of the try block without its except clause: the state reached is
\* passed on and the exception is left to the caller.
c_try_unhandled(r, node_name) ==
    r.state

c_try(r, node_name) ==
    IF r.raised = NoError
    THEN r.state
    ELSE c_handle_node_error(r.state, r.raised, node_name)

\* parallel_execution = len(required_documents) > 3
ParallelThreshold == 3

\* Variant that walks the blueprint from its last entry to its first.
c_required_from_blueprint_reversed(bp) ==
    [i \in 1..Len(bp) |->
        [document_type           |-> "deliverable",
         document_title          |-> Get(bp[Len(bp) + 1 - i], "title", "Document"),
         priority                |-> "critical",
         format_requirements     |-> Get(bp[Len(bp) + 1 - i], "format", "html"),
         blueprint_specification |-> bp[Len(bp) + 1 - i],
         deliverable_index       |-> i - 1,
         is_from_blueprint       |-> TRUE]]

c_required_from_blueprint(bp) ==
    [i \in 1..Len(bp) |->
        [document_type           |-> "deliverable",
         document_title          |-> Get(bp[i], "title", "Document"),
         priority                |-> "critical",
         format_requirements     |-> Get(bp[i], "format", "html"),
         blueprint_specification |-> bp[i],
         deliverable_index       |-> i - 1,
         is_from_blueprint       |-> TRUE]]

c_required_from_analysis(k) ==
    [j \in 1..k |-> [document_type  |-> "compliance_checklist",
                     document_title |-> "Analysed document",
                     priority       |-> "high"]]

\* Whether the analysis stage reaches the generation service (no blueprint).
c_analyze_uses_llm(s0) ==
    /\ strip(s0["user_prompt"]) # <<>>
    /\ Len(Get(s0, "deliverable_blueprint", <<>>)) = 0

c_analyze_project_requirements(s0, inp) ==
    LET s1 == Update(c_ensure_state_initialization(s0),
                     [status        |-> "analyzing_project",
                      current_stage |-> "project_analysis"])
        bp == s1["deliverable_blueprint"]
        req == c_required_from_blueprint(bp)
        body ==
            IF strip(s1["user_prompt"]) = <<>>
            THEN Raise(s1, "User prompt cannot be empty")
            ELSE IF Len(bp) > 0
            THEN Return(AIMessage(
                     Update(s1, [project_type       |-> "multi_document_pack",
                                 parallel_execution |-> Len(req) > ParallelThreshold,
                                 required_documents |-> req]),
                     [text |-> "Project analysis complete using blueprint",
                      n |-> Len(req)]))
            ELSE IF ~inp.llm_ok
            THEN Raise(s1, "llm client unavailable")
            ELSE IF ~inp.analysis.error
            THEN Return(AIMessage(
                     Update(s1, [project_type       |-> "compliance_assessment",
                                 parallel_execution |->
                                     inp.analysis.parallel_execution_suitable,
                                 required_documents |->
                                     c_required_from_analysis(
                                         inp.analysis.required_documents)]),
                     [text |-> "Project analysis complete using fallback logic"]))
            ELSE Return(Update(s1,
                     [project_type       |-> "compliance_assessment",
                      required_documents |->
                          <<[document_type  |-> "compliance_checklist",
                             document_title |-> "Basic Assessment"]>>]))
        done == IF body.raised = NoError
                THEN Return(Put(body.state, "status", "planning_documents"))
                ELSE body
    IN  c_try(done, "analyze_project_requirements")

\* The documents the planning loop iterates over.
c_documents_to_plan(s0) ==
    LET given == Get(s0, "required_documents", <<>>)
    IN  IF Len(given) = 0
        THEN <<[document_type  |-> "compliance_checklist",
                document_title |-> "Compliance Assessment",
                priority       |-> "high"]>>
        ELSE given

c_create_document_plans(s0, inp) ==
    LET s1 == Update(c_ensure_state_initialization(s0),
                     [status        |-> "planning_documents",
                      current_stage |-> "document_planning"])
        required == c_documents_to_plan(s1)
        plans == [i \in 1..Len(required) |->
                    [document_id          |-> i,
                     document_requirement |-> required[i],
                     execution_plan       |->
                         IF inp.planning[i].error THEN "standard" ELSE "planned",
                     status               |-> "pending"]]
        body ==
            IF ~inp.llm_ok
            THEN Raise(s1, "llm client unavailable")
            ELSE Return(Put(AIMessage(
                     Update(s1, [document_plans  |-> plans,
                                 document_status |->
                                     [d \in {plans[i].document_id :
                                                 i \in 1..Len(plans)} |-> "pending"]]),
                     [text |-> "Document planning complete", n |-> Len(plans)]),
                     "status", "generating_documents"))
    IN  c_try(body, "create_document_plans")

\* Variant of the status update that records only the outcome of a call:
\* the status of an item stays as it was while its call is in flight.
c_set_status_on_return(s, document_id, status) ==
    IF status = "in_progress"
    THEN s
    ELSE Put(s, "document_status", Put(s["document_status"], document_id, status))

c_set_status(s, document_id, status) ==
    Put(s, "document_status", Put(s["document_status"], document_id, status))

\* generate_single_document: the answer of the generation service, or an
\* exception raised inside its try block, becomes a result record.
c_generate_single_document(plan, resp) ==
    IF resp.kind = "content"
    THEN [document_id |-> plan.document_id,
          status      |-> "completed",
          content     |-> [document_metadata |->
                              [document_type |-> resp.document_type]],
          success     |-> TRUE]
    ELSE [document_id |-> plan.document_id,
          status      |-> "failed",
          error       |-> resp.kind,
          success     |-> FALSE]

c_generation_entry(s0) ==
    Update(c_ensure_state_initialization(s0),
           [status        |-> "generating_documents",
            current_stage |-> "document_generation"])

c_execution_mode(s) ==
    IF Get(s, "parallel_execution", FALSE) /\ Len(s["document_plans"]) > 1
    THEN "parallel"
    ELSE "sequential"

Successful(document_results) ==
    Count([i \in 1..Len(document_results) |->
              Get(document_results[i][2], "success", FALSE)])

c_generation_exit(s, document_results) ==
    Put(AIMessage(Put(s, "document_results", document_results),
                  [text       |-> "Document generation complete",
                   successful |-> Successful(document_results),
                   total      |-> Len(s["document_plans"])]),
        "status", "consolidating_results")

\* Variant of the loop that stops at the first failed result, as a gather
\* that does not return exceptions would.
RECURSIVE c_collect_results_until_failure(_, _, _, _)
c_collect_results_until_failure(plans, results, i, acc) ==
    IF i > Len(plans) \/ ~Get(results[Min(i, Len(plans))], "success", FALSE)
    THEN acc
    ELSE c_collect_results_until_failure(
             plans, results, i + 1,
             OPut(acc, results[i].document_id, results[i]))

\* The loop over the gathered results of the parallel branch.
RECURSIVE c_collect_results(_, _, _, _)
c_collect_results(plans, results, i, acc) ==
    IF i > Len(plans)
    THEN acc
    ELSE c_collect_results(plans, results, i + 1,
                           OPut(acc, results[i].document_id, results[i]))

----------------------------------------------------------------------------
(* generate_document_files and document_service.generate_document_package *)

c_formats_for(doc_type) ==
    CASE doc_type \in {"ropa", "records_of_processing", "dpia",
                       "compliance_checklist", "vendor_assessment",
                       "training_materials"}             -> {"xlsx"}
      [] doc_type \in {"privacy_policy", "privacy_notice",
                       "cookie_policy"}                  -> {"docx", "pdf"}
      [] doc_type \in {"audit_report", "breach_response"} -> {"pdf"}
      [] OTHER                                           -> {"docx", "pdf"}

\* out.made: the formats whose writer succeeds; out.json: whether the JSON
\* fallback inside the package succeeds.
generate_document_package(formats, out) ==
    LET files == SelectSeq(<<"docx", "pdf", "xlsx">>,
                           LAMBDA f : f \in formats /\ f \in out.made)
    IN  IF files # <<>> THEN [raised |-> FALSE, files |-> files]
        ELSE IF out.json THEN [raised |-> FALSE, files |-> <<"json">>]
        ELSE [raised |-> TRUE, files |-> <<>>]

c_renderable(doc_result) ==
    Get(doc_result, "success", FALSE) /\ "content" \in DOMAIN doc_result

c_doc_type(doc_result) ==
    Get(doc_result.content.document_metadata, "document_type",
        "compliance_checklist")

\* What one document contributes: its files and its manifest entries.
\* path_bound: whether the function-local name Path (imported at line 937,
\* after a package was returned) is bound when the except branch uses it.
c_render_document(doc_id, doc_result, out, path_bound) ==
    IF ~c_renderable(doc_result)
    THEN [files |-> <<>>, manifest |-> <<>>, packaged |-> FALSE]
    ELSE LET doc_type == c_doc_type(doc_result)
             pkg == generate_document_package(c_formats_for(doc_type), out)
             files == IF ~pkg.raised THEN pkg.files
                      ELSE IF path_bound /\ out.json_retry THEN <<"json">>
                      ELSE <<>>
         IN  [files    |-> files,
              packaged |-> ~pkg.raised,
              manifest |-> [k \in 1..Len(files) |->
                              [document_id   |-> doc_id,
                               document_type |-> doc_type,
                               format        |-> upper(files[k]),
                               url           |-> <<doc_id, files[k]>>]]]

c_generate_document_files(s0, inp) ==
    LET s1 == Put(c_ensure_state_initialization(s0),
                  "current_stage", "file_generation")
        results == s1["document_results"]
        packaged(j) == c_render_document(results[j][1], results[j][2],
                                         inp.render[j], FALSE).packaged
        made(i) == c_render_document(results[i][1], results[i][2], inp.render[i],
                                     \E j \in 1..(i - 1) : packaged(j))
        manifest == Concat([i \in 1..Len(results) |-> made(i).manifest])
        generated == Concat([i \in 1..Len(results) |->
                        IF made(i).files = <<>> THEN <<>>
                        ELSE << <<results[i][1], made(i).files>> >>])
    IN  IF Len(results) = 0
        THEN AIMessage(s1, [text |-> "Warning: No document content available"])
        ELSE AIMessage(
                 Update(s1, [generated_files   |-> generated,
                             document_urls     |->
                                 [k \in 1..Len(manifest) |-> manifest[k].url],
                             document_manifest |-> manifest]),
                 [text |-> "Successfully generated files", n |-> Len(manifest)])

----------------------------------------------------------------------------
(* the three validation stages *)

c_validate_one(doc_result, answer) ==
    IF ~Get(doc_result, "success", FALSE) \/ "content" \notin DOMAIN doc_result
    THEN [status |-> "skipped"]
    ELSE IF ~answer.error
    THEN [status |-> "validated",
          validation_data |-> [overall_validation |->
                                  [passed   |-> answer.passed,
                                   critical |-> answer.critical]]]
    ELSE [status |-> "validation_error"]

c_validation_passed(v) ==
    /\ v.status = "validated"
    /\ v.validation_data.overall_validation.passed

\* validation_rate = total_passed / len(document_results): a fraction
Ratio(num, den) == [num |-> num, den |-> den]

\* Variant whose rate is taken over the validated documents only, leaving
\* the documents whose generation failed out of the denominator.
c_validation_summary_over_validated(document_results, validation_results) ==
    LET total_validated ==
            Count([i \in 1..Len(validation_results) |->
                      validation_results[i][2].status = "validated"])
        total_passed ==
            Count([i \in 1..Len(validation_results) |->
                      c_validation_passed(validation_results[i][2])])
    IN  [total_documents |-> Len(document_results),
         validated       |-> total_validated,
         passed          |-> total_passed,
         failed          |-> total_validated - total_passed,
         validation_rate |-> Ratio(total_passed, total_validated)]

c_validation_summary(document_results, validation_results) ==
    LET total_validated ==
            Count([i \in 1..Len(validation_results) |->
                      validation_results[i][2].status = "validated"])
        total_passed ==
            Count([i \in 1..Len(validation_results) |->
                      c_validation_passed(validation_results[i][2])])
    IN  [total_documents |-> Len(document_results),
         validated       |-> total_validated,
         passed          |-> total_passed,
         failed          |-> total_validated - total_passed,
         validation_rate |-> Ratio(total_passed, Len(document_results))]

c_validate_individual_documents(s0, inp) ==
    LET s1 == Put(c_ensure_state_initialization(s0),
                  "current_stage", "individual_validation")
        results == s1["document_results"]
        validation_results ==
            [i \in 1..Len(results) |->
                <<results[i][1], c_validate_one(results[i][2], inp.validation[i])>>]
        body ==
            IF Len(results) = 0 THEN Return(s1)
            ELSE IF ~inp.llm_ok THEN Raise(s1, "llm client unavailable")
            ELSE Return(AIMessage(
                     Update(s1, [individual_validation_results |-> validation_results,
                                 validation_summary |->
                                     c_validation_summary(results, validation_results)]),
                     [text |-> "Individual validation complete"]))
    IN  c_try(body, "validate_individual_documents")

\* Whether cross-document validation returns early with status "skipped".
c_cross_validation_skipped(s) == Len(s["document_results"]) < 2

c_validate_cross_document_consistency(s0, inp) ==
    LET s1 == Put(c_ensure_state_initialization(s0),
                  "current_stage", "cross_validation")
        results == s1["document_results"]
        analyzed == Successful(results)
        body ==
            IF c_cross_validation_skipped(s1)
            THEN Return(Put(s1, "cross_validation_results",
                            [status |-> "skipped",
                             reason |-> "Insufficient documents for cross-validation"]))
            ELSE IF ~inp.llm_ok THEN Raise(s1, "llm client unavailable")
            ELSE IF ~inp.cross.error
            THEN Return(AIMessage(
                     Put(s1, "cross_validation_results",
                         [status             |-> "completed",
                          validation_data    |-> [overall_consistency |->
                              [consistent         |-> inp.cross.consistent,
                               critical_conflicts |-> inp.cross.critical_conflicts]],
                          documents_analyzed |-> analyzed]),
                     [text |-> "Cross-validation complete"]))
            ELSE Return(Put(s1, "cross_validation_results",
                            [status |-> "error", error |-> "llm error"]))
    IN  c_try(body, "validate_cross_document_consistency")

c_validate_against_requirements(s0, inp) ==
    LET s1 == Put(c_ensure_state_initialization(s0),
                  "current_stage", "requirements_validation")
        body ==
            IF ~inp.llm_ok THEN Raise(s1, "llm client unavailable")
            ELSE IF ~inp.requirements.error
            THEN Return(AIMessage(
                     Put(s1, "requirements_validation",
                         [status          |-> "completed",
                          validation_data |->
                              [final_assessment |->
                                   [ready_for_delivery |->
                                        inp.requirements.ready_for_delivery],
                               recommendations |->
                                   inp.requirements.recommendations]]),
                     [text |-> "Requirements validation complete"]))
            ELSE Return(Put(s1, "requirements_validation",
                            [status |-> "error", error |-> "llm error"]))
    IN  c_try(body, "validate_against_requirements")

----------------------------------------------------------------------------
(* consolidate_project_results *)

\* The recommendations of the requirements validation, a sequence.
c_recommendations(s) ==
    LET rv == Get(s, "requirements_validation", <<>>)
    IN  Get(Get(rv, "validation_data", <<>>), "recommendations", <<>>)

DefaultActionCount == 5

MaxActionItems == 5

c_action_items(s) ==
    LET recs == c_recommendations(s)
        taken == SubSeq(recs, 1, Min(Len(recs), MaxActionItems))
    IN  IF Len(taken) > 0
        THEN [k \in 1..Len(taken) |-> [action_id |-> k, title |-> taken[k]]]
        ELSE [k \in 1..DefaultActionCount |->
                 [action_id |-> k, title |-> "default action"]]

c_consolidate_project_results(s0) ==
    LET s1 == Update(c_ensure_state_initialization(s0),
                     [status        |-> "consolidating_results",
                      current_stage |-> "result_consolidation"])
        document_results == s1["document_results"]
        document_urls == Get(s1, "document_urls", <<>>)
        document_manifest == Get(s1, "document_manifest", <<>>)
        validation_summary == Get(s1, "validation_summary", <<>>)
        successful_docs == Successful(document_results)
        total_docs == Len(document_results)
        executive_summary ==
            [completion_status |->
                 IF successful_docs = total_docs
                 THEN "completed" ELSE "partially_completed",
             total_documents_generated |-> successful_docs,
             total_documents           |-> total_docs,
             total_files_created       |-> Len(document_urls)]
        s2 == Update(s1, [project_deliverables |->
                              [document_urls      |-> document_urls,
                               document_manifest  |-> document_manifest,
                               validation_summary |-> validation_summary],
                          executive_summary |-> executive_summary,
                          compliance_report |->
                              [executive_summary |-> executive_summary,
                               document_manifest |-> document_manifest],
                          action_items      |-> c_action_items(s1),
                          status            |-> "completed",
                          current_stage     |-> "completed"])
    IN  AIMessage(s2, [text       |-> "Project Complete",
                       successful |-> successful_docs,
                       total      |-> total_docs])

----------------------------------------------------------------------------
(* marketing_workflow.py *)

\* str.lower() on a format name
lower(fmt) ==
    CASE fmt = "DOCX" -> "docx"
      [] fmt = "PDF"  -> "pdf"
      [] fmt = "XLSX" -> "xlsx"
      [] OTHER        -> fmt

m_ensure_state_initialization(s) ==
    SetDefaults(s, [messages                  |-> <<>>,
                    document_plans            |-> <<>>,
                    document_contents         |-> <<>>,
                    document_files            |-> <<>>,
                    document_urls             |-> <<>>,
                    document_status           |-> <<>>,
                    validation_results        |-> <<>>,
                    quality_scores            |-> <<>>,
                    criteria_validation       |-> <<>>,
                    document_dependencies     |-> <<>>,
                    cross_document_validation |-> <<>>,
                    final_deliverables        |-> <<>>,
                    executive_summary         |-> <<>>,
                    document_manifest         |-> <<>>,
                    success_criteria          |-> <<>>])

m_handle_node_error(s0, error, node_name) ==
    LET s1 == m_ensure_state_initialization(s0)
        rc == Get(s1, "retry_count", 0) + 1
        s2 == Update(s1, [error_message |-> [node |-> node_name, error |-> error],
                          retry_count   |-> rc])
    IN  AIMessage(s2, [text |-> "Processing error", node |-> node_name,
                       retry |-> rc])

m_try(r, node_name) ==
    IF r.raised = NoError
    THEN r.state
    ELSE m_handle_node_error(r.state, r.raised, node_name)

\* The plan appended for the i-th blueprint entry, given the answer to its
\* planning prompt.
m_plan(i, deliverable, answer) ==
    IF ~answer.error
    THEN [document_id             |-> answer.document_id,
          dependencies            |-> answer.dependencies,
          format                  |-> answer.format,
          deliverable_description |-> deliverable]
    ELSE [document_id             |-> i,
          type                    |-> "document",
          deliverable_description |-> deliverable,
          format                  |-> "docx"]

m_plan_ids(plans) == {plans[i].document_id : i \in 1..Len(plans)}

\* document_dependencies[doc_id] = plan.get("dependencies", []), in plan order
m_dependencies(plans) ==
    [d \in m_plan_ids(plans) |->
        LET last == CHOOSE i \in 1..Len(plans) :
                        /\ plans[i].document_id = d
                        /\ \A j \in (i + 1)..Len(plans) : plans[j].document_id # d
        IN  Get(plans[last], "dependencies", {})]

m_analyze_document_requirements(s0, inp) ==
    LET s1 == Update(m_ensure_state_initialization(s0),
                     [status        |-> "analyzing_requirements",
                      current_stage |-> "requirements_analysis"])
        bp == Get(s1, "deliverable_blueprint", <<>>)
        plans == [i \in 1..Len(bp) |-> m_plan(i, bp[i], inp.planning[i])]
        body ==
            IF Len(bp) = 0
            THEN Raise(s1, "No deliverable blueprint provided")
            ELSE IF ~inp.llm_ok
            THEN Raise(s1, "llm client unavailable")
            ELSE Return(AIMessage(
                     Update(s1, [document_plans        |-> plans,
                                 document_dependencies |-> m_dependencies(plans),
                                 document_status       |->
                                     Update(s1["document_status"],
                                            [d \in m_plan_ids(plans) |-> "pending"])]),
                     [text |-> "Document planning complete", n |-> Len(plans)]))
    IN  m_try(body, "analyze_document_requirements")

\* generate_document_content
m_generate_document_content(doc_plan, resp) ==
    IF resp.kind = "content"
    THEN [document_id |-> doc_plan.document_id,
          status      |-> "generated",
          content     |-> [body              |-> "content",
                           executive_summary |-> <<"summary", doc_plan.document_id>>],
          success     |-> TRUE]
    ELSE [document_id |-> doc_plan.document_id,
          status      |-> "failed",
          error       |-> resp.kind,
          success     |-> FALSE]

m_generation_entry(s0) ==
    Update(m_ensure_state_initialization(s0),
           [status        |-> "generating_documents",
            current_stage |-> "document_generation"])

\* max_iterations = len(document_plans) * 2
IterationFactor == 2

\* Variant of the ceiling that divides by the factor instead of multiplying.
m_max_iterations_halved(s) == Len(s["document_plans"]) \div IterationFactor

m_max_iterations(s) == Len(s["document_plans"]) * IterationFactor

\* Variant of the readiness test that does not look at the dependencies.
m_dependencies_ignored(s, doc_plan, generated_docs) ==
    doc_plan.document_id \in DOMAIN s["document_status"]

\* Whether every dependency of the plan has been generated.
m_dependencies_satisfied(s, doc_plan, generated_docs) ==
    \A dep \in Get(s["document_dependencies"], doc_plan.document_id, {}) :
        dep \in DOMAIN generated_docs

\* context["previous_documents"] of the task of a plan: the summaries of the
\* generated documents among its dependencies.
m_previous_documents(s, doc_plan, generated_docs) ==
    [dep_id \in {d \in Get(s["document_dependencies"], doc_plan.document_id, {}) :
                    d \in DOMAIN generated_docs} |->
        Get(Get(generated_docs[dep_id], "content", <<>>), "executive_summary", "")]

m_docs_to_generate(s, pending_docs, generated_docs) ==
    SelectSeq(pending_docs,
              LAMBDA doc_plan : m_dependencies_satisfied(s, doc_plan, generated_docs))

\* Variant of the loop that leaves an item whose generation failed in the
\* pending list, so that a later round tries it again.
RECURSIVE m_process_results_retrying(_, _, _, _, _)
m_process_results_retrying(s, l, docs, results, k) ==
    IF k > Len(docs)
    THEN [state |-> s, loc |-> l]
    ELSE LET doc_id == docs[k].document_id
             result == results[k]
             ok == Get(result, "success", FALSE)
             s1 == Update(s,
                     [document_status |->
                          Put(s["document_status"], doc_id,
                              IF ok THEN "reviewing" ELSE "failed"),
                      document_contents |->
                          OPut(s["document_contents"], doc_id,
                               IF ok THEN Get(result, "content", <<>>)
                               ELSE [error |-> result.error])])
             l1 == [l EXCEPT
                      !.generated_docs =
                          IF ok THEN Put(l.generated_docs, doc_id, result)
                          ELSE l.generated_docs,
                      !.pending_docs =
                          IF ok
                          THEN SelectSeq(l.pending_docs,
                                         LAMBDA d : d.document_id # doc_id)
                          ELSE l.pending_docs]
         IN  m_process_results_retrying(s1, l1, docs, results, k + 1)

\* The loop over zip(docs_to_generate, results); l holds the locals.
RECURSIVE m_process_results(_, _, _, _, _)
m_process_results(s, l, docs, results, k) ==
    IF k > Len(docs)
    THEN [state |-> s, loc |-> l]
    ELSE LET doc_id == docs[k].document_id
             result == results[k]
             ok == Get(result, "success", FALSE)
             s1 == Update(s,
                     [document_status |->
                          Put(s["document_status"], doc_id,
                              IF ok THEN "reviewing" ELSE "failed"),
                      document_contents |->
                          OPut(s["document_contents"], doc_id,
                               IF ok THEN Get(result, "content", <<>>)
                               ELSE [error |-> result.error])])
             l1 == [l EXCEPT
                      !.generated_docs =
                          IF ok THEN Put(l.generated_docs, doc_id, result)
                          ELSE l.generated_docs,
                      !.pending_docs =
                          SelectSeq(l.pending_docs,
                                    LAMBDA d : d.document_id # doc_id)]
         IN  m_process_results(s1, l1, docs, results, k + 1)

m_generation_exit(s) ==
    AIMessage(s, [text       |-> "Document generation complete",
                  successful |-> Cardinality({d \in DOMAIN s["document_status"] :
                                     s["document_status"][d] = "reviewing"}),
                  total      |-> Len(s["document_plans"])])

\* The loop of validate_individual_documents over document_contents; ids is
\* the iteration order, answers[k] the answer for the k-th document.
RECURSIVE m_validate_loop(_, _, _, _)
m_validate_loop(s, ids, answers, k) ==
    IF k > Len(ids)
    THEN Return(s)
    ELSE LET doc_id == ids[k]
             a == answers[k]
             scored == Update(s,
                 [validation_results |->
                      Put(s["validation_results"], doc_id,
                          IF a.error THEN [error |-> "Validation failed"]
                          ELSE [overall_pass |-> a.passed, critical |-> a.critical]),
                  quality_scores |-> Put(s["quality_scores"], doc_id, "score")])
         IN  IF s["document_status"][doc_id] # "reviewing"
             THEN m_validate_loop(s, ids, answers, k + 1)
             ELSE IF a.error
             THEN m_validate_loop(scored, ids, answers, k + 1)
             ELSE IF ~a.passed /\ a.critical
             THEN m_validate_loop(
                      Put(scored, "document_status",
                          Put(scored["document_status"], doc_id, "requires_revision")),
                      ids, answers, k + 1)
             \* DocumentStatus has no member VALIDATED
             ELSE Raise(scored, "AttributeError: VALIDATED")

m_validate_individual_documents(s0, inp) ==
    LET s1 == Update(m_ensure_state_initialization(s0),
                     [status        |-> "validating_documents",
                      current_stage |-> "individual_validation"])
        contents == s1["document_contents"]
        ids == [k \in 1..Len(contents) |-> contents[k][1]]
        looped == m_validate_loop(s1, ids, inp.validation, 1)
        body ==
            IF ~inp.llm_ok THEN Raise(s1, "llm client unavailable")
            ELSE IF looped.raised # NoError THEN looped
            ELSE IF DOMAIN looped.state["quality_scores"] = {}
            THEN Raise(looped.state, "ZeroDivisionError")
            ELSE Return(AIMessage(looped.state,
                                  [text |-> "Individual validation complete"]))
    IN  m_try(body, "validate_individual_documents")

m_validate_cross_document_consistency(s0, inp) ==
    LET s1 == Update(m_ensure_state_initialization(s0),
                     [status        |-> "validating_consistency",
                      current_stage |-> "cross_validation"])
        x == inp.cross
        body ==
            IF ~inp.llm_ok THEN Raise(s1, "llm client unavailable")
            ELSE Return(AIMessage(
                     IF ~x.error
                     THEN Update(s1,
                              [cross_document_validation |->
                                   [overall_consistency |-> x.consistent,
                                    critical            |-> x.critical_conflicts],
                               overall_validation_status |->
                                   IF x.consistent THEN "passed"
                                   ELSE IF x.critical_conflicts THEN "failed"
                                   ELSE "partial"])
                     ELSE Update(s1,
                              [cross_document_validation |->
                                   [error |-> "Cross-validation failed"],
                               overall_validation_status |-> "not_validated"]),
                     [text |-> "Cross-document validation complete"]))
    IN  m_try(body, "validate_cross_document_consistency")

\* The loop of create_document_files over document_plans; written[k] tells
\* whether the file of the k-th plan can be written.
RECURSIVE m_create_loop(_, _, _, _)
m_create_loop(s, manifest, written, k) ==
    IF k > Len(s["document_plans"])
    THEN [state |-> s, manifest |-> manifest]
    ELSE LET doc_plan == s["document_plans"][k]
             doc_id == doc_plan.document_id
             content == OGet(s["document_contents"], doc_id, <<>>)
             format_type == lower(Get(doc_plan, "format", "docx"))
             entry == [document_id       |-> doc_id,
                       format            |-> format_type,
                       url               |-> <<doc_id, format_type>>,
                       validation_status |->
                           Get(s["document_status"], doc_id, "completed")]
         IN  IF DOMAIN content = {} \/ "error" \in DOMAIN content
             THEN m_create_loop(s, manifest, written, k + 1)
             ELSE IF written[k]
             THEN m_create_loop(
                      Update(s, [document_files |->
                                     Put(s["document_files"], doc_id, format_type),
                                 document_status |->
                                     Put(s["document_status"], doc_id, "completed")]),
                      Append(manifest, entry), written, k + 1)
             ELSE m_create_loop(
                      Put(s, "document_status",
                          Put(s["document_status"], doc_id, "failed")),
                      manifest, written, k + 1)

m_create_document_files(s0, inp) ==
    LET s1 == Update(m_ensure_state_initialization(s0),
                     [status        |-> "creating_files",
                      current_stage |-> "file_generation"])
        made == m_create_loop(s1, <<>>, inp.written, 1)
    IN  AIMessage(
            Update(made.state,
                   [document_urls     |-> [k \in 1..Len(made.manifest) |->
                                              made.manifest[k].url],
                    document_manifest |-> made.manifest]),
            [text |-> "File creation complete", n |-> Len(made.manifest)])

m_consolidate_final_deliverables(s0) ==
    LET s1 == Update(m_ensure_state_initialization(s0),
                     [status        |-> "consolidating",
                      current_stage |-> "final_consolidation"])
        total_docs == Len(s1["document_plans"])
        completed_docs == Cardinality({d \in DOMAIN s1["document_status"] :
                                          s1["document_status"][d] = "completed"})
        executive_summary ==
            [project_status      |-> IF completed_docs = total_docs
                                     THEN "completed" ELSE "partially_completed",
             documents_delivered |-> <<completed_docs, total_docs>>,
             validation_status   |->
                 Get(s1, "overall_validation_status", "not_validated")]
        s2 == Update(s1, [final_deliverables |->
                              [executive_summary |-> executive_summary,
                               document_manifest |-> s1["document_manifest"],
                               document_urls     |-> s1["document_urls"]],
                          executive_summary |-> executive_summary,
                          status            |-> "completed",
                          current_stage     |-> "delivery"])
    IN  AIMessage(s2, [text |-> "Project complete", delivered |-> completed_docs])

----------------------------------------------------------------------------
(* Inputs: the request and the answers of the collaborators *)

\* Prompts of a request: empty, blank, and a real one.
Prompts == {<<>>, <<" ">>, <<" ", "g", "d", "p", "r">>}

\* The i-th entry of the deliverable blueprint of a request.
BlueprintEntry(i) ==
    IF i % 2 = 1
    THEN [title |-> "Privacy Policy", format |-> "html"]
    ELSE [title |-> "ROPA Register", format |-> "xlsx"]

Blueprint(n) == [i \in 1..n |-> BlueprintEntry(i)]

\* Answers of safe_llm_query to the analysis prompt.
AnalysisResponses ==
    {[error |-> TRUE]} \cup
    {[error |-> FALSE, required_documents |-> k, parallel_execution_suitable |-> b] :
        k \in 0..MaxItems, b \in BOOLEAN}

\* Answers of safe_llm_query to a planning prompt.
PlanningResponses == {[error |-> FALSE], [error |-> TRUE]}

\* Number of non-nominal answers in a sequence of answers.
Errors(answers) == Cardinality({i \in DOMAIN answers : answers[i].error})

Budget == MaxFaults - faults

\* Document types the generation service may put in a document's metadata.
DocTypes == {"privacy_policy", "ropa"}

\* Outcomes of generate_single_document's use of the generation service:
\* content, an error payload, or an exception inside its try block.
GenResponses ==
    {[kind |-> "content", document_type |-> t] : t \in DocTypes} \cup
    {[kind |-> "error"], [kind |-> "raise"]}

GenCost(resp) == IF resp.kind = "content" THEN 0 ELSE 1

\* Outcomes of the file writers for a package of the given formats.
RenderOutcomes(formats) ==
    {[made |-> m, json |-> TRUE, json_retry |-> TRUE] :
        m \in (SUBSET formats) \ {{}}} \cup
    {[made |-> {}, json |-> jr[1], json_retry |-> jr[2]] :
        jr \in {<<TRUE, TRUE>>, <<FALSE, TRUE>>, <<FALSE, FALSE>>}}

NotRendered == [made |-> {}, json |-> TRUE, json_retry |-> TRUE]

RenderChoices(doc_result) ==
    IF c_renderable(doc_result)
    THEN RenderOutcomes(c_formats_for(c_doc_type(doc_result)))
    ELSE {NotRendered}

RenderCost(doc_result, out) ==
    IF c_renderable(doc_result) /\ out.made # c_formats_for(c_doc_type(doc_result))
    THEN 1 ELSE 0

\* Answers to the validation prompt of one document.
Validated == [error |-> FALSE, passed |-> TRUE, critical |-> FALSE]

ValidationResponses ==
    {[error |-> TRUE, passed |-> FALSE, critical |-> FALSE]} \cup
    {[error |-> FALSE, passed |-> FALSE, critical |-> c] : c \in BOOLEAN}
    \cup {Validated}

ValidationChoices(doc_result) ==
    IF c_renderable(doc_result) THEN ValidationResponses ELSE {Validated}

\* Answers to the cross-document consistency prompt.
Consistent == [error |-> FALSE, consistent |-> TRUE, critical_conflicts |-> FALSE]

CrossResponses ==
    {[error |-> TRUE, consistent |-> FALSE, critical_conflicts |-> FALSE]} \cup
    {[error |-> FALSE, consistent |-> FALSE, critical_conflicts |-> c] :
        c \in BOOLEAN}
    \cup {Consistent}

\* Answers to the requirements prompt; the recommendations are numbered.
RecommendationCounts == {0, 2, MaxActionItems + 1}

\* An answer that finds the project ready carries few recommendations, one
\* that does not carries more than the consolidation takes over.
RequirementsResponses ==
    {[error |-> TRUE, ready_for_delivery |-> FALSE, recommendations |-> <<>>]} \cup
    {[error |-> FALSE, ready_for_delivery |-> n <= MaxActionItems,
      recommendations |-> [k \in 1..n |-> k]] :
        n \in RecommendationCounts}

\* All sequences whose i-th element is drawn from the i-th set.
RECURSIVE Product(_)
Product(sets) ==
    IF sets = <<>>
    THEN {<<>>}
    ELSE {<<x>> \o rest : x \in Head(sets), rest \in Product(Tail(sets))}

\* Number of non-nominal answers in a sequence of costs.
Costs(costs) == Cardinality({i \in DOMAIN costs : costs[i] > 0})

----------------------------------------------------------------------------
(* The compliance graph, build_compliance_graph *)

\* Variant of the graph with a conditional edge that ends the run as soon as a
\* stage has recorded a failure.
c_edge_fail_fast(node) ==
    IF "error_message" \in DOMAIN state \/ node = "consolidate_results"
    THEN "END"
    ELSE CHOOSE next \in {"plan_documents", "generate_documents", "generate_files",
                          "validate_individual", "validate_consistency",
                          "validate_requirements", "consolidate_results"} :
             \/ node = "analyze_project"       /\ next = "plan_documents"
             \/ node = "plan_documents"        /\ next = "generate_documents"
             \/ node = "generate_documents"    /\ next = "generate_files"
             \/ node = "generate_files"        /\ next = "validate_individual"
             \/ node = "validate_individual"   /\ next = "validate_consistency"
             \/ node = "validate_consistency"  /\ next = "validate_requirements"
             \/ node = "validate_requirements" /\ next = "consolidate_results"

\* Variant of the graph with the edges of the marketing graph: the files are
\* rendered after the individual and the cross-document validation.
c_edge_files_last(node) ==
    CASE node = "analyze_project"       -> "plan_documents"
      [] node = "plan_documents"        -> "generate_documents"
      [] node = "generate_documents"    -> "validate_individual"
      [] node = "validate_individual"   -> "validate_consistency"
      [] node = "validate_consistency"  -> "generate_files"
      [] node = "generate_files"        -> "validate_requirements"
      [] node = "validate_requirements" -> "consolidate_results"
      [] node = "consolidate_results"   -> "END"

c_edge(node) ==
    CASE node = "analyze_project"       -> "plan_documents"
      [] node = "plan_documents"        -> "generate_documents"
      [] node = "generate_documents"    -> "generate_files"
      [] node = "generate_files"        -> "validate_individual"
      [] node = "validate_individual"   -> "validate_consistency"
      [] node = "validate_consistency"  -> "validate_requirements"
      [] node = "validate_requirements" -> "consolidate_results"
      [] node = "consolidate_results"   -> "END"

\* A query of the generation service made in a stage (doc 0: for the run).
Query(stage, doc) == [kind |-> "llm", stage |-> stage, doc |-> doc]

\* A generation task handed to the event loop: the document, the scheduling
\* round (0 outside the marketing scheduler) and its position in the batch.
Dispatch(stage, doc, round, slot) ==
    [kind |-> "dispatch", stage |-> stage, doc |-> doc, round |-> round,
     slot |-> slot]

\* The result a generation task came back with.
Outcome(stage, doc, round, slot, success) ==
    [kind |-> "outcome", stage |-> stage, doc |-> doc, round |-> round,
     slot |-> slot, success |-> success]

\* The context a generation task of the scheduler was created with.
Context(stage, doc, round, slot, previous_documents) ==
    [kind |-> "context", stage |-> stage, doc |-> doc, round |-> round,
     slot |-> slot, previous_documents |-> previous_documents]

\* A write of the raw content of a document as JSON that raised.
FallbackFailure(stage, doc) ==
    [kind |-> "fallback_failure", stage |-> stage, doc |-> doc]

\* No stage is suspended at an await.
Idle == [mode |-> "idle"]

\* main.py create_assessment: the initial state of a compliance run
InitC ==
    /\ workflow = "compliance"
    /\ \E p \in Prompts, n \in 0..MaxItems :
          state = [user_prompt           |-> p,
                   deliverable_blueprint |-> Blueprint(n),
                   status                |-> "initiated",
                   current_stage         |-> "start",
                   compliance_report     |-> <<>>,
                   executive_summary     |-> <<>>,
                   action_items          |-> <<>>,
                   messages              |-> <<[type |-> "human",
                                                content |-> [text |-> "Starting"]]>>]
    /\ pc = "analyze_project"
    /\ loc = Idle
    /\ calls = {}
    /\ faults = 0

CAnalyze ==
    /\ workflow = "compliance"
    /\ pc = "analyze_project"
    /\ \E ok \in BOOLEAN, a \in AnalysisResponses :
          LET uses == c_analyze_uses_llm(state)
              cost == IF ~ok THEN 1 ELSE IF a.error THEN 1 ELSE 0
          IN  /\ uses \/ (ok /\ a = [error |-> TRUE])
              /\ ~uses \/ cost <= Budget
              /\ state' = c_analyze_project_requirements(
                              state, [llm_ok |-> ok, analysis |-> a])
              /\ calls' = IF uses /\ ok
                          THEN calls \cup {Query("analyze_project", 0)}
                          ELSE calls
              /\ faults' = IF uses THEN faults + cost ELSE faults
    /\ pc' = c_edge(pc)
    /\ UNCHANGED <<workflow, loc>>

CPlan ==
    /\ workflow = "compliance"
    /\ pc = "plan_documents"
    /\ \E ok \in BOOLEAN :
       \E answers \in [1..Len(c_documents_to_plan(state)) -> PlanningResponses] :
          LET cost == IF ok THEN Errors(answers) ELSE 1
          IN  /\ ok \/ \A i \in DOMAIN answers : ~answers[i].error
              /\ cost <= Budget
              /\ state' = c_create_document_plans(
                              state, [llm_ok |-> ok, planning |-> answers])
              /\ calls' = IF ok
                          THEN calls \cup {Query("plan_documents", i) :
                                              i \in DOMAIN answers}
                          ELSE calls
              /\ faults' = faults + cost
    /\ pc' = c_edge(pc)
    /\ UNCHANGED <<workflow, loc>>

CGenBegin ==
    /\ workflow = "compliance"
    /\ pc = "generate_documents"
    /\ loc = Idle
    /\ LET s1 == c_generation_entry(state)
           plans == s1["document_plans"]
       IN  IF Len(plans) = 0
           THEN /\ state' = c_handle_node_error(
                                s1, "No document plans available for execution",
                                "execute_document_generation")
                /\ pc' = c_edge(pc)
                /\ UNCHANGED <<loc, calls>>
           ELSE IF c_execution_mode(s1) = "parallel"
           THEN /\ state' = s1
                /\ loc' = [mode |-> "parallel", results |-> <<>>]
                /\ calls' = calls \cup
                       {Dispatch(pc, plans[i].document_id, 0, i) : i \in 1..Len(plans)}
                /\ pc' = pc
           ELSE /\ state' = c_set_status(s1, plans[1].document_id, "in_progress")
                /\ loc' = [mode |-> "sequential", document_results |-> <<>>,
                           i |-> 1]
                /\ calls' = calls \cup {Dispatch(pc, plans[1].document_id, 0, 1)}
                /\ pc' = pc
    /\ UNCHANGED <<workflow, faults>>

\* One iteration of the sequential loop completes: its await returns.
CSeqResolve ==
    /\ workflow = "compliance"
    /\ pc = "generate_documents"
    /\ loc.mode = "sequential"
    /\ \E resp \in GenResponses :
          LET plans == state["document_plans"]
              plan == plans[loc.i]
              result == c_generate_single_document(plan, resp)
              results == OPut(loc.document_results, plan.document_id, result)
              s1 == c_set_status(state, plan.document_id, result.status)
              asked == IF resp.kind = "raise" THEN {}
                       ELSE {Query(pc, plan.document_id)}
          IN  /\ GenCost(resp) <= Budget
              /\ faults' = faults + GenCost(resp)
              /\ IF loc.i < Len(plans)
                 THEN /\ state' = c_set_status(
                                      s1, plans[loc.i + 1].document_id, "in_progress")
                      /\ loc' = [loc EXCEPT !.document_results = results,
                                            !.i = loc.i + 1]
                      /\ calls' = calls \cup asked \cup
                                    {Outcome(pc, plan.document_id, 0, loc.i,
                                             resp.kind = "content"),
                                     Dispatch(pc, plans[loc.i + 1].document_id, 0, loc.i + 1)}
                      /\ pc' = pc
                 ELSE /\ state' = c_generation_exit(s1, results)
                      /\ loc' = Idle
                      /\ calls' = calls \cup asked \cup
                                    {Outcome(pc, plan.document_id, 0, loc.i,
                                             resp.kind = "content")}
                      /\ pc' = c_edge(pc)
    /\ UNCHANGED workflow

\* One task of the gathered tasks completes.
CParResolve ==
    /\ workflow = "compliance"
    /\ pc = "generate_documents"
    /\ loc.mode = "parallel"
    /\ \E i \in 1..Len(state["document_plans"]), resp \in GenResponses :
          LET plan == state["document_plans"][i]
          IN  /\ i \notin DOMAIN loc.results
              /\ GenCost(resp) <= Budget
              /\ faults' = faults + GenCost(resp)
              /\ loc' = [loc EXCEPT !.results =
                            Put(loc.results, i, c_generate_single_document(plan, resp))]
              /\ calls' = calls
                   \cup {Outcome(pc, plan.document_id, 0, i, resp.kind = "content")}
                   \cup (IF resp.kind = "raise" THEN {}
                         ELSE {Query(pc, plan.document_id)})
    /\ UNCHANGED <<workflow, state, pc>>

\* asyncio.gather returns: the results are collected.
CParGather ==
    /\ workflow = "compliance"
    /\ pc = "generate_documents"
    /\ loc.mode = "parallel"
    /\ DOMAIN loc.results = 1..Len(state["document_plans"])
    /\ state' = c_generation_exit(
                    state, c_collect_results(state["document_plans"],
                                             loc.results, 1, <<>>))
    /\ loc' = Idle
    /\ pc' = c_edge(pc)
    /\ UNCHANGED <<workflow, calls, faults>>

CFiles ==
    /\ workflow = "compliance"
    /\ pc = "generate_files"
    /\ LET results == Get(state, "document_results", <<>>)
       IN  \E r \in Product([i \in 1..Len(results) |->
                                RenderChoices(results[i][2])]) :
              LET cost == Costs([i \in 1..Len(results) |->
                                   RenderCost(results[i][2], r[i])])
              IN  /\ cost <= Budget
                  /\ state' = c_generate_document_files(state, [render |-> r])
                  /\ faults' = faults + cost
                  /\ calls' = calls \cup
                        {FallbackFailure(pc, results[i][1]) :
                            i \in {j \in 1..Len(results) :
                                     /\ c_renderable(results[j][2])
                                     /\ r[j].made = {}
                                     /\ ~r[j].json}}
    /\ pc' = c_edge(pc)
    /\ UNCHANGED <<workflow, loc>>

CValidateIndividual ==
    /\ workflow = "compliance"
    /\ pc = "validate_individual"
    /\ LET results == Get(state, "document_results", <<>>)
           asked == {i \in 1..Len(results) : c_renderable(results[i][2])}
       IN  \E ok \in BOOLEAN :
           \E v \in Product([i \in 1..Len(results) |->
                                ValidationChoices(results[i][2])]) :
              LET cost == IF Len(results) = 0 THEN 0
                          ELSE IF ~ok THEN 1
                          ELSE Costs([i \in 1..Len(results) |->
                                        IF v[i] = Validated THEN 0 ELSE 1])
              IN  /\ (Len(results) > 0 /\ ok) \/ \A i \in DOMAIN v : v[i] = Validated
                  /\ Len(results) > 0 \/ ok
                  /\ cost <= Budget
                  /\ state' = c_validate_individual_documents(
                                  state, [llm_ok |-> ok, validation |-> v])
                  /\ faults' = faults + cost
                  /\ calls' = IF ok
                              THEN calls \cup {Query(pc, results[i][1]) : i \in asked}
                              ELSE calls
    /\ pc' = c_edge(pc)
    /\ UNCHANGED <<workflow, loc>>

CValidateConsistency ==
    /\ workflow = "compliance"
    /\ pc = "validate_consistency"
    /\ \E ok \in BOOLEAN, x \in CrossResponses :
          LET skipped == c_cross_validation_skipped(
                             c_ensure_state_initialization(state))
              cost == IF skipped THEN 0
                      ELSE IF ~ok THEN 1
                      ELSE IF x = Consistent THEN 0 ELSE 1
          IN  /\ (~skipped /\ ok) \/ x = Consistent
              /\ ~skipped \/ ok
              /\ cost <= Budget
              /\ state' = c_validate_cross_document_consistency(
                              state, [llm_ok |-> ok, cross |-> x])
              /\ faults' = faults + cost
              /\ calls' = IF ~skipped /\ ok
                          THEN calls \cup {Query(pc, 0)}
                          ELSE calls
    /\ pc' = c_edge(pc)
    /\ UNCHANGED <<workflow, loc>>

CValidateRequirements ==
    /\ workflow = "compliance"
    /\ pc = "validate_requirements"
    /\ \E ok \in BOOLEAN, q \in RequirementsResponses :
          LET cost == IF ~ok THEN 1
                      ELSE IF ~q.error /\ q.ready_for_delivery THEN 0 ELSE 1
          IN  /\ ok \/ (~q.error /\ q.ready_for_delivery /\ q.recommendations = <<>>)
              /\ cost <= Budget
              /\ state' = c_validate_against_requirements(
                              state, [llm_ok |-> ok, requirements |-> q])
              /\ faults' = faults + cost
              /\ calls' = IF ok THEN calls \cup {Query(pc, 0)} ELSE calls
    /\ pc' = c_edge(pc)
    /\ UNCHANGED <<workflow, loc>>

CConsolidate ==
    /\ workflow = "compliance"
    /\ pc = "consolidate_results"
    /\ state' = c_consolidate_project_results(state)
    /\ pc' = c_edge(pc)
    /\ UNCHANGED <<workflow, loc, calls, faults>>

NextC ==
    \/ CAnalyze
    \/ CPlan
    \/ CGenBegin
    \/ CSeqResolve
    \/ CParResolve
    \/ CParGather
    \/ CFiles
    \/ CValidateIndividual
    \/ CValidateConsistency
    \/ CValidateRequirements
    \/ CConsolidate

SpecC == InitC /\ [][NextC]_vars

----------------------------------------------------------------------------
(* The marketing graph, build_marketing_workflow *)

\* Variant of the graph with a conditional edge that gives the run up once
\* retry_count has reached 3.
m_edge_retry_limit(node) ==
    IF Get(state, "retry_count", 0) >= 3 \/ node = "consolidate"
    THEN "END"
    ELSE CHOOSE next \in {"generate_documents", "validate_individual",
                          "validate_consistency", "create_files", "consolidate"} :
             \/ node = "analyze_requirements" /\ next = "generate_documents"
             \/ node = "generate_documents"   /\ next = "validate_individual"
             \/ node = "validate_individual"  /\ next = "validate_consistency"
             \/ node = "validate_consistency" /\ next = "create_files"
             \/ node = "create_files"         /\ next = "consolidate"

m_edge(node) ==
    CASE node = "analyze_requirements" -> "generate_documents"
      [] node = "generate_documents"   -> "validate_individual"
      [] node = "validate_individual"  -> "validate_consistency"
      [] node = "validate_consistency" -> "create_files"
      [] node = "create_files"         -> "consolidate"
      [] node = "consolidate"          -> "END"

\* The deliverables of a marketing request are plain descriptions.
MBlueprint(n) == [i \in 1..n |-> <<"deliverable", i>>]

\* The format the plan answer names for the i-th deliverable.
MFormat(i) == IF i % 2 = 1 THEN "docx" ELSE "xlsx"

\* Answers to the planning prompt of the i-th deliverable: the identifier
\* and the dependencies are chosen by the generation service; the identifier
\* is the one asked for or repeats the previous deliverable's.
MPlanResponses(i) ==
    {[error |-> TRUE, document_id |-> 0, dependencies |-> {}, format |-> "docx"]}
    \cup
    {[error |-> FALSE, document_id |-> d, dependencies |-> D, format |-> MFormat(i)] :
        d \in {j \in {i - 1, i} : j >= 1}, D \in SUBSET (1..MaxItems)}

\* An answer is nominal when it carries the identifier the prompt asked for.
MPlanCost(i, a) == IF a.error \/ a.document_id # i THEN 1 ELSE 0

MGenResponses == {[kind |-> "content"], [kind |-> "error"], [kind |-> "raise"]}

InitM ==
    /\ workflow = "marketing"
    /\ \E n \in 0..MaxItems :
          state = [deliverable_blueprint |-> MBlueprint(n),
                   messages              |-> <<>>]
    /\ pc = "analyze_requirements"
    /\ loc = Idle
    /\ calls = {}
    /\ faults = 0

MAnalyze ==
    /\ workflow = "marketing"
    /\ pc = "analyze_requirements"
    /\ LET n == Len(Get(state, "deliverable_blueprint", <<>>))
       IN  \E ok \in BOOLEAN :
           \E answers \in Product([i \in 1..n |-> MPlanResponses(i)]) :
              LET cost == IF n = 0 THEN 0
                          ELSE IF ~ok THEN 1
                          ELSE Costs([i \in 1..n |-> MPlanCost(i, answers[i])])
              IN  /\ (n > 0 /\ ok) \/
                        \A i \in 1..n : answers[i] =
                            [error |-> FALSE, document_id |-> i,
                             dependencies |-> {}, format |-> MFormat(i)]
                  /\ n > 0 \/ ok
                  /\ cost <= Budget
                  /\ state' = m_analyze_document_requirements(
                                  state, [llm_ok |-> ok, planning |-> answers])
                  /\ faults' = faults + cost
                  /\ calls' = IF n > 0 /\ ok
                              THEN calls \cup {Query(pc, i) : i \in 1..n}
                              ELSE calls
    /\ pc' = m_edge(pc)
    /\ UNCHANGED <<workflow, loc>>

MGenBegin ==
    /\ workflow = "marketing"
    /\ pc = "generate_documents"
    /\ loc = Idle
    /\ state' = m_generation_entry(state)
    /\ loc' = [mode           |-> "scheduling",
               generated_docs |-> <<>>,
               pending_docs   |-> state'["document_plans"],
               iteration      |-> 0]
    /\ UNCHANGED <<workflow, pc, calls, faults>>

\* Whether the while loop runs another batch.
m_round_enabled(s, l) ==
    /\ Len(l.pending_docs) > 0
    /\ l.iteration < m_max_iterations(s)
    /\ Len(m_docs_to_generate(s, l.pending_docs, l.generated_docs)) > 0

\* An iteration of the while loop begins: the batch is selected and its
\* tasks are handed to asyncio.gather.
MRoundBegin ==
    /\ workflow = "marketing"
    /\ pc = "generate_documents"
    /\ loc.mode = "scheduling"
    /\ m_round_enabled(state, loc)
    /\ LET docs == m_docs_to_generate(state, loc.pending_docs, loc.generated_docs)
           round == loc.iteration + 1
       IN  /\ loc' = [mode           |-> "gathering",
                      generated_docs |-> loc.generated_docs,
                      pending_docs   |-> loc.pending_docs,
                      iteration      |-> round,
                      docs           |-> docs,
                      results        |-> <<>>]
           /\ calls' = calls
                \cup {Dispatch(pc, docs[k].document_id, round, k) :
                         k \in 1..Len(docs)}
                \cup {Context(pc, docs[k].document_id, round, k,
                              m_previous_documents(state, docs[k],
                                                   loc.generated_docs)) :
                         k \in 1..Len(docs)}
    /\ UNCHANGED <<workflow, state, pc, faults>>

\* One task of the batch completes, in any order.
MRoundResolve ==
    /\ workflow = "marketing"
    /\ pc = "generate_documents"
    /\ loc.mode = "gathering"
    /\ \E k \in 1..Len(loc.docs), resp \in MGenResponses :
          /\ k \notin DOMAIN loc.results
          /\ GenCost(resp) <= Budget
          /\ faults' = faults + GenCost(resp)
          /\ loc' = [loc EXCEPT !.results =
                        Put(loc.results, k,
                            m_generate_document_content(loc.docs[k], resp))]
          /\ calls' = calls
               \cup {Outcome(pc, loc.docs[k].document_id, loc.iteration, k,
                             resp.kind = "content")}
               \cup (IF resp.kind = "raise" THEN {}
                     ELSE {Query(pc, loc.docs[k].document_id)})
    /\ UNCHANGED <<workflow, state, pc>>

\* Variant of the wait for the batch that returns with the first completed
\* task (asyncio.wait with FIRST_COMPLETED) and processes what has resolved.
MRoundGatherFirstCompleted ==
    /\ workflow = "marketing"
    /\ pc = "generate_documents"
    /\ loc.mode = "gathering"
    /\ DOMAIN loc.results # {}
    /\ LET ks == SelectSeq([k \in 1..Len(loc.docs) |-> k],
                           LAMBDA k : k \in DOMAIN loc.results)
           after == m_process_results(
                        state,
                        [mode           |-> "scheduling",
                         generated_docs |-> loc.generated_docs,
                         pending_docs   |-> loc.pending_docs,
                         iteration      |-> loc.iteration],
                        [j \in 1..Len(ks) |-> loc.docs[ks[j]]],
                        [j \in 1..Len(ks) |-> loc.results[ks[j]]], 1)
       IN  /\ state' = after.state
           /\ loc' = after.loc
    /\ UNCHANGED <<workflow, pc, calls, faults>>

\* asyncio.gather returns: the results are processed in batch order.
MRoundGather ==
    /\ workflow = "marketing"
    /\ pc = "generate_documents"
    /\ loc.mode = "gathering"
    /\ DOMAIN loc.results = 1..Len(loc.docs)
    /\ LET after == m_process_results(
                        state,
                        [mode           |-> "scheduling",
                         generated_docs |-> loc.generated_docs,
                         pending_docs   |-> loc.pending_docs,
                         iteration      |-> loc.iteration],
                        loc.docs, loc.results, 1)
       IN  /\ state' = after.state
           /\ loc' = after.loc
    /\ UNCHANGED <<workflow, pc, calls, faults>>

\* The while loop is left: nothing pending, the iteration ceiling, or break.
MGenEnd ==
    /\ workflow = "marketing"
    /\ pc = "generate_documents"
    /\ loc.mode = "scheduling"
    /\ ~m_round_enabled(state, loc)
    /\ state' = m_generation_exit(state)
    /\ loc' = Idle
    /\ pc' = m_edge(pc)
    /\ UNCHANGED <<workflow, calls, faults>>

MValidateIndividual ==
    /\ workflow = "marketing"
    /\ pc = "validate_individual"
    /\ LET s1 == m_ensure_state_initialization(state)
           contents == s1["document_contents"]
           reviewing(k) == s1["document_status"][contents[k][1]] = "reviewing"
       IN  \E ok \in BOOLEAN :
           \E v \in [1..Len(contents) -> ValidationResponses] :
              LET cost == IF ~ok THEN 1
                          ELSE Costs([k \in 1..Len(contents) |->
                                        IF v[k] = Validated THEN 0 ELSE 1])
                  outcome == m_validate_individual_documents(
                                 state, [llm_ok |-> ok, validation |-> v])
              IN  /\ \A k \in 1..Len(contents) :
                        (ok /\ reviewing(k)) \/ v[k] = Validated
                  /\ cost <= Budget
                  /\ state' = outcome
                  /\ faults' = faults + cost
                  /\ calls' = IF ok
                              THEN calls \cup
                                     {Query(pc, d) :
                                        d \in DOMAIN outcome["validation_results"]}
                              ELSE calls
    /\ pc' = m_edge(pc)
    /\ UNCHANGED <<workflow, loc>>

MValidateConsistency ==
    /\ workflow = "marketing"
    /\ pc = "validate_consistency"
    /\ \E ok \in BOOLEAN, x \in CrossResponses :
          LET cost == IF ~ok THEN 1 ELSE IF x = Consistent THEN 0 ELSE 1
          IN  /\ ok \/ x = Consistent
              /\ cost <= Budget
              /\ state' = m_validate_cross_document_consistency(
                              state, [llm_ok |-> ok, cross |-> x])
              /\ faults' = faults + cost
              /\ calls' = IF ok THEN calls \cup {Query(pc, 0)} ELSE calls
    /\ pc' = m_edge(pc)
    /\ UNCHANGED <<workflow, loc>>

MCreateFiles ==
    /\ workflow = "marketing"
    /\ pc = "create_files"
    /\ LET s1 == m_ensure_state_initialization(state)
           plans == s1["document_plans"]
           creatable(k) ==
               LET content == OGet(s1["document_contents"],
                                   plans[k].document_id, <<>>)
               IN  DOMAIN content # {} /\ "error" \notin DOMAIN content
       IN  \E w \in [1..Len(plans) -> BOOLEAN] :
              LET cost == Costs([k \in 1..Len(plans) |-> IF w[k] THEN 0 ELSE 1])
              IN  /\ \A k \in 1..Len(plans) : creatable(k) \/ w[k]
                  /\ cost <= Budget
                  /\ state' = m_create_document_files(state, [written |-> w])
                  /\ faults' = faults + cost
                  /\ calls' = calls \cup
                        {FallbackFailure(pc, plans[k].document_id) :
                            k \in {j \in 1..Len(plans) :
                                     /\ creatable(j)
                                     /\ ~w[j]
                                     /\ lower(Get(plans[j], "format", "docx"))
                                            \notin {"docx", "pdf"}}}
    /\ pc' = m_edge(pc)
    /\ UNCHANGED <<workflow, loc>>

MConsolidate ==
    /\ workflow = "marketing"
    /\ pc = "consolidate"
    /\ state' = m_consolidate_final_deliverables(state)
    /\ pc' = m_edge(pc)
    /\ UNCHANGED <<workflow, loc, calls, faults>>

NextM ==
    \/ MAnalyze
    \/ MGenBegin
    \/ MRoundBegin
    \/ MRoundResolve
    \/ MRoundGather
    \/ MGenEnd
    \/ MValidateIndividual
    \/ MValidateConsistency
    \/ MCreateFiles
    \/ MConsolidate

SpecM == InitM /\ [][NextM]_vars

----------------------------------------------------------------------------
(* Both pipelines *)

Init == InitC \/ InitM

Next == NextC \/ NextM

Spec == Init /\ [][Next]_vars

\* The graph runner invokes the next node as soon as the previous one has
\* returned, and every awaited call of a stage returns or raises: a step that
\* stays possible is eventually taken.
FairSpec == Spec /\ WF_vars(Next)

----------------------------------------------------------------------------
(* Properties of the runs *)

RetryCount == Get(state, "retry_count", 0)

\* Invocations of the error handler, read off the message log.
HandlerInvocations ==
    Count([i \in 1..Len(state["messages"]) |->
              /\ state["messages"][i].type = "ai"
              /\ state["messages"][i].content.text = "Processing error"])

Dispatched(d) == \E c \in calls : c.kind = "dispatch" /\ c.doc = d

Attempted == Cardinality({c \in calls : c.kind = "dispatch"})

Plans == Get(state, "document_plans", <<>>)

PlanIds == m_plan_ids(Plans)

DistinctIds == Cardinality(PlanIds) = Len(Plans)

Deps == Get(state, "document_dependencies", <<>>)

Status == Get(state, "document_status", <<>>)

Manifest == Get(state, "document_manifest", <<>>)

RECURSIVE Closure(_, _)
Closure(deps, S) ==
    LET T == S \cup UNION {Get(deps, d, {}) : d \in S}
    IN  IF T = S THEN S ELSE Closure(deps, T)

\* Everything d depends on, directly or transitively.
TransitiveDeps(d) == Closure(Deps, Get(Deps, d, {}))

OnCycle(d) == d \in TransitiveDeps(d)

DependsOnCycle(d) == \E c \in TransitiveDeps(d) : OnCycle(c)

AcyclicGraph ==
    /\ DistinctIds
    /\ \A d \in PlanIds : Get(Deps, d, {}) \subseteq PlanIds /\ ~OnCycle(d)

\* The marketing scheduler has returned and the next stage has not begun.
MSchedulerDone == workflow = "marketing" /\ pc = "validate_individual"

\* C1: for every acyclic dependency graph whose dependency ids are all
\* planned, at the end of the scheduler loop every planned item is generated
\* (Completed) or Failed, and none is left Pending.
C1_AcyclicLeavesNoItemPending ==
    (MSchedulerDone /\ AcyclicGraph) =>
        \A d \in PlanIds : Status[d] \in {"reviewing", "failed"}

\* C2: when the scheduler stops on a round that selects nothing, every item
\* that is still pending (never dispatched) ends with status Failed.
C2_StalledItemsEndFailed ==
    MSchedulerDone =>
        \A d \in PlanIds : ~Dispatched(d) => Status[d] = "failed"

PlanningDone == pc = "generate_documents" /\ loc = Idle

BlueprintOf == Get(state, "deliverable_blueprint", <<>>)

\* The i-th plan is derived from the i-th blueprint entry and refers to it.
PlansFollowBlueprint ==
    /\ Len(Plans) = Len(BlueprintOf)
    /\ \A i \in 1..Len(Plans) :
          IF workflow = "compliance"
          THEN /\ "blueprint_specification" \in DOMAIN Plans[i].document_requirement
               /\ Plans[i].document_requirement.blueprint_specification = BlueprintOf[i]
               /\ Plans[i].document_requirement.deliverable_index = i - 1
          ELSE Plans[i].deliverable_description = BlueprintOf[i]

CompletedItems ==
    IF workflow = "compliance"
    THEN Successful(Get(state, "document_results", <<>>))
    ELSE Cardinality({d \in DOMAIN Status :
                         Status[d] \in {"reviewing", "requires_revision"}})

CrossDone ==
    \/ workflow = "compliance" /\ pc = "validate_requirements"
    \/ workflow = "marketing" /\ pc = "create_files"

CrossResult ==
    IF workflow = "compliance"
    THEN Get(state, "cross_validation_results", <<>>)
    ELSE Get(state, "cross_document_validation", <<>>)

\* C5: with fewer than 2 successfully generated items the cross-document
\* validation records status "skipped" and makes no generation-service call.
C5_CrossSkippedBelowTwoCompleted ==
    (CrossDone /\ CompletedItems < 2) =>
        /\ Get(CrossResult, "status", "none") = "skipped"
        /\ Query("validate_consistency", 0) \notin calls

\* C6: every invocation of the error handler raises retry_count by exactly
\* one, a missing counter counting as 0: the counter always equals the
\* number of invocations so far.
C6_RetryCountIsInvocationCount == RetryCount = HandlerInvocations

\* The handler has run twice in one run.
C6_Witness == HandlerInvocations = 2 /\ RetryCount = 2

\* C7: a run in which retry_count reaches 3 ends with status Failed.
C7_ThreeStageFailuresFailRun ==
    (pc = "END" /\ RetryCount >= 3) => state["status"] = "failed"

\* C8: after the generation stage each item's recorded status is Completed
\* (generated) if its generation call succeeded and Failed otherwise.
C8_StatusFollowsGenerationResult ==
    /\ (workflow = "compliance" /\ pc = "generate_files"
            /\ "document_results" \in DOMAIN state) =>
          \A k \in 1..Len(state["document_results"]) :
              LET doc_id == state["document_results"][k][1]
                  result == state["document_results"][k][2]
              IN  Status[doc_id] =
                      IF result.success THEN "completed" ELSE "failed"
    /\ (MSchedulerDone /\ DistinctIds) =>
          \A k \in 1..Len(state["document_contents"]) :
              LET doc_id == state["document_contents"][k][1]
                  content == state["document_contents"][k][2]
              IN  Status[doc_id] =
                      IF "error" \in DOMAIN content THEN "failed" ELSE "reviewing"

IndividualResults == Get(state, "individual_validation_results", <<>>)

\* Whether the k-th document's individual validation passed.
Passed(k) ==
    LET v == IndividualResults[k][2]
    IN  /\ v.status = "validated"
        /\ v.validation_data.overall_validation.passed

\* C9: the validation rate is the number of items whose individual
\* validation passed over the number of items attempted; an item whose
\* generation failed counts in the denominator and never in the numerator.
C9_ValidationRateOverAttempted ==
    (workflow = "compliance" /\ "validation_summary" \in DOMAIN state) =>
        LET rate == state["validation_summary"].validation_rate
            results == state["document_results"]
        IN  /\ rate.den = Attempted
            /\ rate.num = Cardinality({k \in 1..Len(results) :
                                          results[k][2].success /\ Passed(k)})
            /\ \A k \in 1..Len(results) : ~results[k][2].success => ~Passed(k)

\* One item passed, the other item's generation failed: the rate is 1/2.
C9_Witness ==
    /\ workflow = "compliance"
    /\ "validation_summary" \in DOMAIN state
    /\ state["validation_summary"].validation_rate = Ratio(1, 2)
    /\ Successful(state["document_results"]) = 1

\* C10: in a blueprint-driven run in which every call succeeds the manifest
\* has exactly one entry per item, in the format of the item's blueprint
\* entry (compared without regard to letter case).
C10_ManifestMatchesBlueprint ==
    (workflow = "compliance" /\ pc = "END" /\ faults = 0
        /\ Len(BlueprintOf) > 0 /\ strip(state["user_prompt"]) # <<>>) =>
        /\ \A i \in 1..Len(BlueprintOf) :
              Cardinality({k \in 1..Len(Manifest) :
                              Manifest[k].document_id = i}) = 1
        /\ \A k \in 1..Len(Manifest) :
              lower(Manifest[k].format) =
                  BlueprintOf[Manifest[k].document_id].format

----------------------------------------------------------------------------
(* Concurrent batches of generation tasks *)

\* The generation tasks handed to asyncio.gather, and the results they
\* came back with.
BatchTasks ==
    {c \in calls : /\ c.kind = "dispatch"
                   /\ \/ workflow = "marketing"
                      \/ c_execution_mode(state) = "parallel"}

Outcomes == {c \in calls : c.kind = "outcome"}

\* The batch of a task: the tasks gathered together with it.
Siblings(t) == {u \in BatchTasks : u.round = t.round /\ u.slot # t.slot}

OutcomesOf(round, doc) == {o \in Outcomes : o.round = round /\ o.doc = doc}

\* The gather of the batch has returned and its results have been processed.
Gathered == loc.mode \notin {"parallel", "gathering"}

\* The record the stage keeps under an item id, and whether it is a success.
Recorded(d) ==
    IF workflow = "compliance"
    THEN OHas(state["document_results"], d)
    ELSE OHas(state["document_contents"], d)

RecordedSuccess(d) ==
    IF workflow = "compliance"
    THEN Get(OGet(state["document_results"], d, <<>>), "success", FALSE)
    ELSE "error" \notin DOMAIN OGet(state["document_contents"], d, <<>>)

----------------------------------------------------------------------------
(* Stage-level failures *)

\* The name under which the stage of a graph node reports its failures.
NodeName(node) ==
    CASE node = "analyze_project"       -> "analyze_project_requirements"
      [] node = "plan_documents"        -> "create_document_plans"
      [] node = "generate_documents"    ->
             IF workflow = "compliance" THEN "execute_document_generation"
             ELSE "generate_all_documents"
      [] node = "generate_files"        -> "generate_document_files"
      [] node = "validate_individual"   -> "validate_individual_documents"
      [] node = "validate_consistency"  -> "validate_cross_document_consistency"
      [] node = "validate_requirements" -> "validate_against_requirements"
      [] node = "consolidate_results"   -> "consolidate_project_results"
      [] node = "analyze_requirements"  -> "analyze_document_requirements"
      [] node = "create_files"          -> "create_document_files"
      [] node = "consolidate"           -> "consolidate_final_deliverables"
      [] OTHER                          -> "none"

Edge(node) == IF workflow = "compliance" THEN c_edge(node) ELSE m_edge(node)

\* A stage whose body is known to raise from the state it starts in: the
\* compliance analysis of a blank prompt, the marketing analysis of an empty
\* blueprint.
BodyRaises ==
    \/ /\ workflow = "compliance"
       /\ pc = "analyze_project"
       /\ strip(state["user_prompt"]) = <<>>
    \/ /\ workflow = "marketing"
       /\ pc = "analyze_requirements"
       /\ Len(Get(state, "deliverable_blueprint", <<>>)) = 0

\* C12: every stage returns the state to the graph, which moves to the next
\* node; a stage adds at most one to retry_count, and does so exactly when its
\* handler ran, which then has set error_message to the failure of this
\* stage; a stage whose body raises always ends that way.
C12_StagesReturnStateOnFailure ==
    [][pc' # pc =>
          /\ pc' = Edge(pc)
          /\ "messages" \in DOMAIN state'
          /\ RetryCount' - RetryCount \in {0, 1}
          /\ HandlerInvocations' - HandlerInvocations = RetryCount' - RetryCount
          /\ RetryCount' = RetryCount + 1 =>
                 /\ "error_message" \in DOMAIN state'
                 /\ state'["error_message"].node = NodeName(pc)
                 /\ state'["error_message"].error # NoError
          /\ RetryCount' = RetryCount =>
                 Get(state', "error_message", NoError) =
                     Get(state, "error_message", NoError)
          /\ BodyRaises => RetryCount' = RetryCount + 1]_vars

\* The individual validation of the marketing graph raised, its handler
\* recorded the failure, and the graph went on to the next stage.
C12_Witness ==
    /\ workflow = "marketing"
    /\ pc = "validate_consistency"
    /\ RetryCount = 1
    /\ Get(state, "error_message", [node |-> "none"]).node =
           "validate_individual_documents"

----------------------------------------------------------------------------
(* The message log *)

Messages == state["messages"]

\* C13: every execution of a stage, on every path through it, appends at
\* least one message, so the log is strictly longer when the stage returns
\* than it was when the stage started.
C13_EveryStageAppendsAMessage ==
    [][pc' # pc => Len(Messages') > Len(Messages)]_vars

----------------------------------------------------------------------------
(* Requests that cannot be served *)

\* The request of the run is blank (compliance) or names no deliverable
\* (marketing).
FatalInput ==
    \/ workflow = "compliance" /\ strip(state["user_prompt"]) = <<>>
    \/ workflow = "marketing" /\ Len(Get(state, "deliverable_blueprint", <<>>)) = 0

LaterStages ==
    {"plan_documents", "generate_documents", "validate_individual",
     "validate_consistency", "validate_requirements"}

\* C14: a run whose prompt is blank (compliance) or whose blueprint is empty
\* (marketing) makes no planning, generation or validation call to the
\* generation service at any later point.
C14_FatalInputMakesNoLaterCall ==
    FatalInput =>
        \A c \in calls : c.kind = "llm" => c.stage \notin LaterStages

----------------------------------------------------------------------------
(* The end of the pipeline *)

\* The consolidation stage has run: it is the only one that sets the status
\* "completed" and writes the executive summary.
Consolidated ==
    /\ Get(state, "status", "none") = "completed"
    /\ Get(state, "executive_summary", <<>>) # <<>>

\* C15: in every run, whatever failed before, the consolidation stage is
\* eventually executed and the run reaches the end of the pipeline.
C15_ConsolidationAndEndAreReached ==
    <>(pc = "END" /\ Consolidated)

\* A run that reached the end consolidated although two stages had failed.
C15_Witness ==
    /\ pc = "END"
    /\ Consolidated
    /\ RetryCount >= 2
    /\ "error_message" \in DOMAIN state

----------------------------------------------------------------------------
(* Item-level failures and the run-level retry count *)

GenerationFailures == {o \in Outcomes : ~o.success}

\* Every generation task of the run failed, and nothing else went wrong: the
\* request can be served and every other answer of a collaborator was nominal.
OnlyItemFailures ==
    /\ ~FatalInput
    /\ Outcomes # {}
    /\ GenerationFailures = Outcomes
    /\ faults = Cardinality(GenerationFailures)

\* C16: failures of single items, every item failing included, never
\* increment retry_count, never set the run-level error and never make a later
\* stage record a stage-level failure.
C16_ItemFailuresNeverFailAStage ==
    OnlyItemFailures => (RetryCount = 0 /\ "error_message" \notin DOMAIN state)

----------------------------------------------------------------------------
(* Critical findings of the individual validation *)

\* The individual validation of item d answered, and reported a critical issue.
CriticalReported(d) ==
    IF workflow = "compliance"
    THEN \E k \in 1..Len(IndividualResults) :
            /\ IndividualResults[k][1] = d
            /\ IndividualResults[k][2].status = "validated"
            /\ IndividualResults[k][2].validation_data.overall_validation.critical
    ELSE LET v == Get(Get(state, "validation_results", <<>>), d, <<>>)
         IN  "critical" \in DOMAIN v /\ v.critical

ReviewStatus ==
    IF workflow = "compliance" THEN "requires_review" ELSE "requires_revision"

IndividualValidationDone == pc = "validate_consistency"

\* C17: when the individual validation stage returns, every item for which it
\* reported a critical issue has the status RequiresReview, whatever the
\* overall pass flag of the answer.
C17_CriticalIssueRequiresReview ==
    IndividualValidationDone =>
        \A d \in DOMAIN Get(state, "document_status", <<>>) :
            CriticalReported(d) => state["document_status"][d] = ReviewStatus

----------------------------------------------------------------------------
(* Final readiness *)

\* The run reports a positive final readiness: ready for delivery
\* (compliance), overall validation status Passed (marketing).
ReadinessPositive ==
    IF workflow = "compliance"
    THEN LET r == Get(state, "requirements_validation", [status |-> "none"])
         IN  /\ r.status = "completed"
             /\ r.validation_data.final_assessment.ready_for_delivery
    ELSE Get(state, "overall_validation_status", "not_validated") = "passed"

\* The cross-document validation answered and reported a critical conflict.
CriticalConflict ==
    IF workflow = "compliance"
    THEN /\ Get(CrossResult, "status", "none") = "completed"
         /\ CrossResult.validation_data.overall_consistency.critical_conflicts
    ELSE Get(CrossResult, "critical", FALSE)

\* C18: at the end of a run the final readiness is positive only if the
\* cross-document validation reported no critical conflict.
C18_ReadyOnlyWithoutCriticalConflict ==
    (pc = "END" /\ ReadinessPositive) => ~CriticalConflict

----------------------------------------------------------------------------
(* Artifacts of the items that have content *)

FilesDone ==
    IF workflow = "compliance"
    THEN pc \in {"validate_individual", "validate_consistency",
                 "validate_requirements", "consolidate_results", "END"}
    ELSE pc \in {"consolidate", "END"}

\* The ids of the items whose generation left content to render.
WithContent ==
    IF workflow = "compliance"
    THEN LET results == Get(state, "document_results", <<>>)
         IN  {results[i][1] : i \in {j \in 1..Len(results) :
                                        c_renderable(results[j][2])}}
    ELSE LET contents == Get(state, "document_contents", <<>>)
         IN  {contents[i][1] : i \in {j \in 1..Len(contents) :
                                         /\ DOMAIN contents[j][2] # {}
                                         /\ "error" \notin DOMAIN contents[j][2]}}
             \cap PlanIds

HasArtifact(d) == \E k \in 1..Len(Manifest) : Manifest[k].document_id = d

FallbackFailed(d) ==
    \E c \in calls : c.kind = "fallback_failure" /\ c.doc = d

\* C19: after the file stage every item that has content has an artifact
\* recorded in the manifest, whatever happened to the requested formats,
\* unless the write of its raw content as JSON itself failed.
C19_ContentAlwaysGetsAnArtifact ==
    FilesDone =>
        \A d \in WithContent : HasArtifact(d) \/ FallbackFailed(d)

----------------------------------------------------------------------------
(* The counts of the final summary *)

\* The item counts the executive summary carries: the compliance summary
\* reports the generated documents "of" the total, the marketing summary the
\* delivered documents over the total. Neither writes a count of failed items.
SummaryCounts ==
    LET es == state["executive_summary"]
    IN  IF workflow = "compliance"
        THEN [attempted |-> es.total_documents,
              succeeded |-> es.total_documents_generated]
        ELSE [attempted |-> es.documents_delivered[2],
              succeeded |-> es.documents_delivered[1]]

\* C20: the summary written by the consolidation reports the attempted, the
\* succeeded and the failed items; attempted is the number of planned items
\* and succeeded + failed = attempted.
C20_SummaryReportsThreeCounts ==
    Consolidated =>
        /\ DOMAIN SummaryCounts = {"attempted", "succeeded", "failed"}
        /\ SummaryCounts.attempted = Len(state["document_plans"])
        /\ SummaryCounts.succeeded + SummaryCounts.failed = SummaryCounts.attempted

ActionItems == Get(state, "action_items", <<>>)

ActionTitles == [k \in 1..Len(ActionItems) |-> ActionItems[k].title]

DefaultActions == [k \in 1..DefaultActionCount |-> "default action"]

\* C21: after the compliance consolidation the action items are never empty:
\* they are the recommendations of the requirements validation, all of them
\* and in their order, when there are any, and the default set otherwise
\* (also when the requirements validation returned an error or did not run).
C21_ActionItemsKeepEveryRecommendation ==
    (workflow = "compliance" /\ Consolidated) =>
        /\ Len(ActionItems) > 0
        /\ ActionTitles = IF c_recommendations(state) # <<>>
                          THEN c_recommendations(state)
                          ELSE DefaultActions

\* The planning stage has returned: document_plans is final.
AfterPlanning ==
    pc \notin {"analyze_project", "plan_documents", "analyze_requirements"}

\* The ids of the planned items, in planning order.
PlanIdSeq == [i \in 1..Len(Plans) |-> Plans[i].document_id]

\* C22: after planning the ids of the work items are pairwise distinct, and
\* no step of the rest of the run gives an id to another item.
C22_ItemIdsAreUniqueAndStable ==
    [][AfterPlanning' =>
          /\ \A i, j \in 1..Len(Plans') :
                Plans'[i].document_id = Plans'[j].document_id => i = j
          /\ AfterPlanning => PlanIdSeq' = PlanIdSeq]_vars

\* C23: after planning every id in every item's dependency set is the id of
\* a planned item of the run (a plan naming an unknown id is not accepted).
C23_DependenciesNamePlannedItems ==
    AfterPlanning =>
        /\ \A d \in DOMAIN Deps : Deps[d] \subseteq PlanIds
        /\ \A i \in 1..Len(Plans) :
              Get(Plans[i], "dependencies", {}) \subseteq PlanIds

\* The generation tasks the marketing scheduler has handed out.
SchedulerTasks ==
    {c \in calls : c.kind = "dispatch" /\ workflow = "marketing"}

\* The planned items a task dispatched under an id stands for.
ItemsOf(c) == {i \in 1..Len(Plans) : Plans[i].document_id = c.doc}

\* The id belongs to an item whose generation succeeded in an earlier round.
CompletedBefore(dep, round) ==
    \E o \in Outcomes : o.doc = dep /\ o.success /\ o.round < round

\* C24: the scheduler dispatches an item only in a round at whose start every
\* id of the item's dependency set belongs to an item whose generation has
\* already succeeded; an item with a failed, pending or unknown dependency
\* is never dispatched.
C24_DispatchedOnlyAfterDependencies ==
    \A c \in SchedulerTasks : \A i \in ItemsOf(c) :
        \A dep \in Get(Plans[i], "dependencies", {}) :
            CompletedBefore(dep, c.round)

\* The task has resolved: it came back with a result or with an exception.
Resolved(t) ==
    \E o \in Outcomes : o.stage = t.stage /\ o.round = t.round /\ o.slot = t.slot

C26_BatchResultsGoToOwnSlots ==
    /\ \A t \in BatchTasks : \A u \in Siblings(t) : u.doc # t.doc
    /\ Gathered =>
          \A t \in BatchTasks : \A o \in OutcomesOf(t.round, t.doc) :
              o.slot = t.slot =>
                  Recorded(t.doc) /\ RecordedSuccess(t.doc) = o.success

\* The stages of the compliance pipeline in the order of the specification:
\* analyze requirements, plan items, generate, render files, validate
\* individually, validate cross-document, validate against requirements,
\* consolidate.
ComplianceOrder ==
    <<"analyze_project", "plan_documents", "generate_documents",
      "generate_files", "validate_individual", "validate_consistency",
      "validate_requirements", "consolidate_results", "END">>

PositionIn(order, node) == CHOOSE k \in 1..Len(order) : order[k] = node

\* C27: a compliance run starts at the analysis and every stage hands over
\* to the next stage of the fixed order and to no other, whatever the stage
\* did: a stage starts only when its predecessor has returned.
C27_ComplianceStagesRunInFixedOrder ==
    /\ workflow = "compliance" => pc = ComplianceOrder[1]
    /\ [][(workflow = "compliance" /\ pc' # pc) =>
             /\ loc' = Idle
             /\ PositionIn(ComplianceOrder, pc') =
                    PositionIn(ComplianceOrder, pc) + 1]_vars

\* A compliance run went through all the stages, one of which failed.
C27_Witness ==
    /\ workflow = "compliance"
    /\ pc = "END"
    /\ RetryCount = 1
    /\ state["current_stage"] = "completed"

\* The stage of the compliance pipeline a node of the marketing graph stands
\* for (the marketing analysis also plans the items).
StageKind(node) ==
    CASE node = "analyze_requirements" -> "plan_documents"
      [] node = "create_files"         -> "generate_files"
      [] node = "consolidate"          -> "consolidate_results"
      [] OTHER                         -> node

\* C28: the marketing pipeline runs its stages in the order of the compliance
\* pipeline, the requirements validation left out: every stage hands over to
\* a stage that comes later in that order, so the files are rendered after
\* the generation and before the individual and cross-document validation.
C28_MarketingFollowsComplianceOrder ==
    [][(workflow = "marketing" /\ pc' # pc) =>
          /\ StageKind(pc') # "validate_requirements"
          /\ PositionIn(ComplianceOrder, StageKind(pc')) >
                 PositionIn(ComplianceOrder, StageKind(pc))]_vars

\* C29: the generation stage issues one concurrent batch for all items only
\* when the project is flagged for independent execution and there are more
\* than 3 items; with 3 or fewer items the generation is sequential,
\* whichever analysis path set the flag.
C29_OneBatchOnlyAboveThreshold ==
    (workflow = "compliance" /\ loc.mode = "parallel") =>
        /\ Get(state, "parallel_execution", FALSE)
        /\ Len(Plans) > ParallelThreshold

\* The sequential loop is awaiting the generation call of the plan loc.i.
SequentialCallInFlight == workflow = "compliance" /\ loc.mode = "sequential"

\* The generation tasks of the compliance stage that have not resolved.
InFlight ==
    {c \in calls : c.kind = "dispatch" /\ c.stage = "generate_documents"
                      /\ ~Resolved(c)}

\* C30: in sequential mode the items are dispatched one at a time in planning
\* order; while the generation call of an item is in flight that item is
\* InProgress, every earlier item is Completed or Failed and every later
\* item is Pending, so at most one item is InProgress.
C30_SequentialOneItemInProgress ==
    SequentialCallInFlight =>
        /\ InFlight = {Dispatch(pc, Plans[loc.i].document_id, 0, loc.i)}
        /\ \A j \in 1..Len(Plans) :
              /\ Dispatched(Plans[j].document_id) <=> j <= loc.i
              /\ Status[Plans[j].document_id] \in
                     IF j < loc.i THEN {"completed", "failed"}
                     ELSE IF j = loc.i THEN {"in_progress"}
                     ELSE {"pending"}
        /\ Cardinality({d \in DOMAIN Status : Status[d] = "in_progress"}) <= 1

\* The call of the second item is in flight after the first item failed.
C30_Witness ==
    /\ SequentialCallInFlight
    /\ loc.i = 2
    /\ Status[Plans[1].document_id] = "failed"
    /\ Status[Plans[2].document_id] = "in_progress"

----------------------------------------------------------------------------
(* The life cycle of a work item *)

\* The status of the specification a DocumentStatus value stands for: the
\* marketing graph calls a generated item "reviewing" and an item with
\* disqualifying issues "requires_revision".
StatusKind(status) ==
    CASE status = "reviewing"         -> "completed"
      [] status = "requires_revision" -> "requires_review"
      [] OTHER                        -> status

AllowedTransitions ==
    {<<"pending", "in_progress">>, <<"in_progress", "completed">>,
     <<"in_progress", "failed">>, <<"completed", "requires_review">>}

\* C31: every change of a work item's status is one of Pending->InProgress,
\* InProgress->Completed, InProgress->Failed, Completed->RequiresReview.
C31_StatusChangesFollowLifeCycle ==
    [][\A d \in DOMAIN Status \cap DOMAIN Status' :
          StatusKind(Status'[d]) # StatusKind(Status[d]) =>
              <<StatusKind(Status[d]), StatusKind(Status'[d])>>
                  \in AllowedTransitions]_vars

\* The generation tasks handed out under an id.
DispatchesOf(d) == {c \in calls : c.kind = "dispatch" /\ c.doc = d}

\* C32: within a run each work item is dispatched for generation at most
\* once: the tasks handed out under an id belong to one round and are no more
\* than the items carrying the id, so an item that ended Failed or
\* RequiresReview is never dispatched again.
C32_ItemsAreDispatchedAtMostOnce ==
    \A d \in PlanIds :
        /\ \A t, u \in DispatchesOf(d) : t.stage = u.stage /\ t.round = u.round
        /\ Cardinality(DispatchesOf(d)) <=
               Cardinality({i \in 1..Len(Plans) : Plans[i].document_id = d})

\* A finished run with several scheduler rounds in which an item failed and
\* was dispatched once.
C32_Witness ==
    /\ pc = "END"
    /\ \E c \in calls : c.kind = "dispatch" /\ c.round = 2
    /\ \E d \in PlanIds :
          /\ Cardinality(DispatchesOf(d)) = 1
          /\ \E o \in OutcomesOf(2, d) : ~o.success

----------------------------------------------------------------------------
(* The context of a generation call *)

Contexts == {c \in calls : c.kind = "context"}

\* The summary of the content generated under an id.
SummaryOf(d) ==
    Get(OGet(state["document_contents"], d, <<>>), "executive_summary", "none")

\* C33: the context of a dispatched item has a summary entry for every id of
\* the item's dependency set, taken from the content already generated for
\* that dependency, and no entry for any other item.
C33_ContextHoldsDependencySummaries ==
    \A c \in Contexts : \A i \in ItemsOf(c) :
        /\ DOMAIN c.previous_documents = Get(Plans[i], "dependencies", {})
        /\ \A dep \in DOMAIN c.previous_documents :
              /\ c.previous_documents[dep] = SummaryOf(dep)
              /\ CompletedBefore(dep, c.round)

----------------------------------------------------------------------------
(* Every stage runs once *)

\* The nodes of the marketing graph along its edges.
MarketingOrder ==
    <<"analyze_requirements", "generate_documents", "validate_individual",
      "validate_consistency", "create_files", "consolidate", "END">>

GraphOrder == IF workflow = "compliance" THEN ComplianceOrder ELSE MarketingOrder

\* C34: each stage executes exactly once per run and the next stage starts
\* after it, whatever error_message and retry_count are: a step that ends a
\* stage moves to the next node of the graph, and a step that stays in a node
\* is a step of the generation loop that is under way, never a second
\* execution of the stage.
C34_EveryStageRunsOnce ==
    [][/\ pc' # pc =>
             PositionIn(GraphOrder, pc') = PositionIn(GraphOrder, pc) + 1
       /\ pc' = pc => pc = "generate_documents" /\ loc' # Idle]_vars

\* A run went through all its stages although three of them had failed
\* before its last stage.
C34_Witness ==
    /\ pc = "END"
    /\ RetryCount >= 3
    /\ state["messages"][Len(state["messages"])].content.text # "Processing error"

----------------------------------------------------------------------------
(* What the consolidation reports *)

\* No generation call of the run came back with a document.
NothingGenerated == \A o \in Outcomes : ~o.success

\* The completion status of the executive summary.
CompletionStatus ==
    LET es == state["executive_summary"]
    IN  IF workflow = "compliance"
        THEN es.completion_status
        ELSE es.project_status

\* C35: a run in which no document was generated successfully (no plans, a
\* failed generation stage, or every item failed) is never reported with
\* completion status "completed" in the executive summary.
C35_NothingGeneratedIsNotCompleted ==
    (Consolidated /\ NothingGenerated) => CompletionStatus # "completed"

\* C36: once the individual validation has set an item to requires_revision
\* the item keeps that status until the end of the run: neither the file
\* creation nor the consolidation turns it into Completed.
C36_RequiresRevisionIsKept ==
    [][\A d \in DOMAIN Status :
          Status[d] = "requires_revision" =>
              /\ d \in DOMAIN Status'
              /\ Status'[d] = "requires_revision"]_vars

\* The ids under which a generation call failed.
FailedIds == {o.doc : o \in {x \in Outcomes : ~x.success}}

\* C37: a failed generation is terminal for an item: the item never gets
\* status Completed afterwards, is never validated, gets no file and appears
\* neither in the manifest nor in the list of document URLs; the manifest and
\* the URL list have the same length.
C37_GenerationFailureIsTerminal ==
    /\ Len(Manifest) = Len(Get(state, "document_urls", <<>>))
    /\ \A d \in FailedIds :
          /\ Get(Status, d, "failed") # "completed"
          /\ Query("validate_individual", d) \notin calls
          /\ d \notin DOMAIN Get(state, "document_files", <<>>)
          /\ \A k \in 1..Len(Get(state, "generated_files", <<>>)) :
                state["generated_files"][k][1] # d
          /\ \A k \in 1..Len(Manifest) : Manifest[k].document_id # d

----------------------------------------------------------------------------
(* Termination of the scheduler loop *)

\* C38: every round of the scheduler that dispatches a batch removes every
\* dispatched item from the pending list, so the list strictly shrinks, the
\* number of rounds never exceeds the number of items, and the loop is never
\* left because of the ceiling of 2 x item_count iterations.
C38_PendingShrinksEveryRound ==
    [][workflow = "marketing" /\ pc = "generate_documents" /\ loc # Idle =>
          /\ (loc.mode = "gathering" /\ loc'.mode = "scheduling") =>
                /\ Len(loc'.pending_docs) < Len(loc.pending_docs)
                /\ \A k \in 1..Len(loc'.pending_docs) :
                      \A j \in 1..Len(loc.docs) :
                          loc'.pending_docs[k].document_id # loc.docs[j].document_id
          /\ loc.iteration <= Len(Plans)
          /\ (loc.mode = "scheduling" /\ loc' = Idle) =>
                \/ Len(loc.pending_docs) = 0
                \/ Len(m_docs_to_generate(state, loc.pending_docs,
                                          loc.generated_docs)) = 0]_vars

\* The loop has run as many rounds as there are items and nothing is pending.
C38_Witness ==
    /\ workflow = "marketing"
    /\ loc.mode = "scheduling"
    /\ Len(Plans) = MaxItems
    /\ loc.iteration = Len(Plans)
    /\ Len(loc.pending_docs) = 0

----------------------------------------------------------------------------
(* The frame of the error handler *)

\* The exceptions the running stage raises.
Exceptions ==
    {"llm client unavailable"} \cup
    CASE NodeName(pc) = "analyze_project_requirements" ->
             {"User prompt cannot be empty"}
      [] NodeName(pc) = "execute_document_generation" ->
             {"No document plans available for execution"}
      [] NodeName(pc) = "analyze_document_requirements" ->
             {"No deliverable blueprint provided"}
      [] NodeName(pc) = "validate_individual_documents"
             /\ workflow = "marketing" ->
             {"AttributeError: VALIDATED", "ZeroDivisionError"}
      [] OTHER -> {}

\* What handle_node_error returns when the running stage raises the error in
\* the current state.
HandlerResult(error) ==
    IF workflow = "compliance"
    THEN c_handle_node_error(state, error, NodeName(pc))
    ELSE m_handle_node_error(state, error, NodeName(pc))

\* The fields the handler writes.
HandlerWrites ==
    {"error_message", "retry_count", "updated_at", "messages", "trace_data"}

====
